---- MODULE Spec2Model ----
(***************************************************************************)
(* tower-http, src/trace/layer.rs: TraceLayer, the configuration of the    *)
(* tracing middleware, and Layer::layer, which builds a Trace service from *)
(* it.                                                                     *)
(*                                                                         *)
(* A TraceLayer owns seven values (make_classifier and six hooks).  The    *)
(* model keeps every owned value in a cell of `mem`; a struct is the       *)
(* record of the cells of its fields.  A struct literal of the source is   *)
(* modelled as a record of field initialisers (a value given, a field      *)
(* moved out of self, a field cloned from self) that Materialise turns     *)
(* into cells, so that moving, cloning and dropping are what the code      *)
(* does and not what the model assumes.                                    *)
(***************************************************************************)
EXTENDS Naturals, Sequences, FiniteSets, TLC

\* ---------------------------------------------------------------- bounds
MaxLayers == 2     \* program variables that hold a TraceLayer
MaxTraces == 2     \* program variables that hold a Trace
NumCustom == 1     \* distinct user-supplied values of one capability
MaxOps    == 3     \* operations in one run of the wiring code
NumThreads == 2    \* threads that call layer() on one shared TraceLayer

LayerIds == 1..MaxLayers
TraceIds == 1..MaxTraces
Threads  == 1..NumThreads
InnerServices == {"serviceX", "serviceY"}

\* ---------------------------------------------------------------- fields
HookSlots == {"make_span", "on_request", "on_response", "on_body_chunk",
              "on_eos", "on_failure"}
Slots == {"make_classifier"} \cup HookSlots

\* ---------------------------------------------------------------- values
\* a value: what it is, what it is made for or wraps, and which one it is
W(tag, of, n) == [tag |-> tag, of |-> of, n |-> n]
V(tag, n) == W(tag, "", n)
Free == V("Free", 0)                 \* a cell that holds no value

DefaultMakeSpan_new          == V("DefaultMakeSpan", 0)
DefaultOnRequest_default     == V("DefaultOnRequest", 0)
DefaultOnResponse_default    == V("DefaultOnResponse", 0)
DefaultOnBodyChunk_default   == V("DefaultOnBodyChunk", 0)
DefaultOnEos_default         == V("DefaultOnEos", 0)
DefaultOnFailure_default     == V("DefaultOnFailure", 0)
ServerErrorsAsFailures_default == V("ServerErrorsAsFailures", 0)
GrpcErrorsAsFailures_default   == V("GrpcErrorsAsFailures", 0)

\* SharedClassifier::new(classifier): a MakeClassifier that wraps a classifier
SharedClassifier_new(classifier) == W("SharedClassifier", classifier.tag, classifier.n)

\* user-supplied values: a MakeClassifier, or a hook for one slot
CustomClassifiers == {V("CustomMakeClassifier", n) : n \in 1..NumCustom}
CustomHooks(k)    == {W("Custom", k, n) : n \in 1..NumCustom}

\* the type-parameter defaults of struct TraceLayer
DocumentedDefault(k) ==
    CASE k = "make_span"     -> V("DefaultMakeSpan", 0)
      [] k = "on_request"    -> V("DefaultOnRequest", 0)
      [] k = "on_response"   -> V("DefaultOnResponse", 0)
      [] k = "on_body_chunk" -> V("DefaultOnBodyChunk", 0)
      [] k = "on_eos"        -> V("DefaultOnEos", 0)
      [] k = "on_failure"    -> V("DefaultOnFailure", 0)

\* what new() accepts: M: MakeClassifier<E>
MakeClassifiers ==
    CustomClassifiers \cup {SharedClassifier_new(ServerErrorsAsFailures_default),
                            SharedClassifier_new(GrpcErrorsAsFailures_default)}
\* what the mutator of slot k accepts
HookValues(k) == CustomHooks(k) \cup {DocumentedDefault(k)}
Capability(k) == IF k = "make_classifier" THEN MakeClassifiers ELSE HookValues(k)

\* ---------------------------------------------------------------- storage
LayerObj(i) == <<"layer", i>>
TraceObj(j) == <<"trace", j>>
Objs  == {LayerObj(i) : i \in LayerIds} \cup {TraceObj(j) : j \in TraceIds}
Cell(obj, k) == <<obj[1], obj[2], k>>
Addr  == {Cell(obj, k) : obj \in Objs, k \in Slots}
NoAddr == <<"none", 0, "none">>
OwnCells(obj) == {Cell(obj, k) : k \in Slots}

NoLayer == [live |-> FALSE]
NoTrace == [live |-> FALSE]

\* field initialisers of a struct literal
Given(v)  == [how |-> "given", val |-> v,    addr |-> NoAddr]
Moved(a)  == [how |-> "move",  val |-> Free, addr |-> a]
Cloned(a) == [how |-> "clone", val |-> Free, addr |-> a]
Shared(a) == [how |-> "share", val |-> Free, addr |-> a]   \* a borrow kept
Taken(a)  == [how |-> "take",  val |-> Free, addr |-> a]   \* moved out of a borrow
Unset     == [how |-> "unset", val |-> Free, addr |-> NoAddr]

VARIABLES
    layers,   \* LayerIds -> NoLayer or [live, f: Slots -> Addr]
    traces,   \* TraceIds -> NoTrace or [live, inner, f: Slots -> Addr]
    mem,      \* Addr -> value owned at that cell, or Free
    origin,   \* history: Objs -> the constructor and classifier a value descends from
    parent,   \* history: Objs -> the layer a value was cloned or built from
    applied,  \* history: LayerIds -> the mutator call that produced the value held
    ops,      \* operations done
    pc,       \* Threads -> index of the next field layer() clones, 0 when idle
    job,      \* Threads -> the layer() call a thread is in
    building, \* Threads -> cells of the fields a running layer() has initialised
    todo,     \* LayerIds -> mutators a chain has still to apply
    args,     \* HookSlots -> the argument given to the mutator of that slot
    crossed   \* history: the two chains have applied different mutators so far

vars == <<layers, traces, mem, origin, parent, applied, ops, pc, job, building, todo, args, crossed>>

Range(f) == {f[k] : k \in DOMAIN f}

\* the values a struct with fields f holds
SlotValues(f, m) == [k \in Slots |-> m[f[k]]]

\* Clone::clone of one slot value: an independent duplicate
CloneValue(v) == v

\* One field of a struct literal is initialised in the storage of `obj`.
InitField(obj, k, init, m) ==
    CASE init.how = "given" ->
            [addr |-> Cell(obj, k), mem |-> [m EXCEPT ![Cell(obj, k)] = init.val]]
      [] init.how = "clone" ->
            [addr |-> Cell(obj, k),
             mem |-> [m EXCEPT ![Cell(obj, k)] = CloneValue(m[init.addr])]]
      [] init.how = "take" ->
            [addr |-> Cell(obj, k),
             mem |-> [m EXCEPT ![Cell(obj, k)] = m[init.addr], ![init.addr] = Free]]
      [] init.how = "unset" ->
            [addr |-> Cell(obj, k), mem |-> [m EXCEPT ![Cell(obj, k)] = Free]]
      [] OTHER -> [addr |-> init.addr, mem |-> m]

\* the cells in `cells` are dropped
RECURSIVE DropCells(_, _)
DropCells(cells, m) ==
    IF cells = {} THEN m
    ELSE LET a == CHOOSE x \in cells : TRUE
         IN  DropCells(cells \ {a}, [m EXCEPT ![a] = Free])

\* the fields of a literal are initialised one after another
SlotOrder == <<"make_classifier", "make_span", "on_request", "on_response",
               "on_body_chunk", "on_eos", "on_failure">>
RECURSIVE InitFields(_, _, _, _, _)
InitFields(obj, lit, n, f, m) ==
    IF n > Len(SlotOrder) THEN [f |-> f, mem |-> m]
    ELSE LET k == SlotOrder[n]
             r == InitField(obj, k, lit[k], m)
         IN  InitFields(obj, lit, n + 1, [f EXCEPT ![k] = r.addr], r.mem)

\* A struct literal `lit` is built in the storage of `obj`.  `consumed` are the
\* cells of a self taken by value: those not moved into the literal are dropped.
\* A field given a new value is stored where the field it replaces was, so the
\* replaced value is dropped before the new one is stored.
Materialise(obj, lit, consumed, m) ==
    LET moved == {lit[k].addr : k \in {x \in Slots : lit[x].how = "move"}}
    IN  InitFields(obj, lit, 1, [k \in Slots |-> NoAddr], DropCells(consumed \ moved, m))

\* a struct goes out of scope: the values it owns are dropped
Drop(f, m) == [a \in Addr |-> IF a \in Range(f) THEN Free ELSE m[a]]

\* ------------------------------------------------ layer.rs, struct literals
\* a slip: the clone keeps a borrow of one field of self
clone_SharesEos(self) ==
    [on_request      |-> Cloned(self.on_request),
     on_response     |-> Cloned(self.on_response),
     on_failure      |-> Cloned(self.on_failure),
     on_eos          |-> Shared(self.on_eos),
     on_body_chunk   |-> Cloned(self.on_body_chunk),
     make_span       |-> Cloned(self.make_span),
     make_classifier |-> Cloned(self.make_classifier)]

\* impl Clone for TraceLayer
clone(self) ==
    [on_request      |-> Cloned(self.on_request),
     on_response     |-> Cloned(self.on_response),
     on_failure      |-> Cloned(self.on_failure),
     on_eos          |-> Cloned(self.on_eos),
     on_body_chunk   |-> Cloned(self.on_body_chunk),
     make_span       |-> Cloned(self.make_span),
     make_classifier |-> Cloned(self.make_classifier)]

\* a slip: one hook slot filled with the default of another
new_EosFromBodyChunk(make_classifier) ==
    [make_classifier |-> Given(make_classifier),
     make_span       |-> Given(DefaultMakeSpan_new),
     on_failure      |-> Given(DefaultOnFailure_default),
     on_request      |-> Given(DefaultOnRequest_default),
     on_eos          |-> Given(DefaultOnBodyChunk_default),
     on_body_chunk   |-> Given(DefaultOnBodyChunk_default),
     on_response     |-> Given(DefaultOnResponse_default)]

\* TraceLayer::new
new(make_classifier) ==
    [make_classifier |-> Given(make_classifier),
     make_span       |-> Given(DefaultMakeSpan_new),
     on_failure      |-> Given(DefaultOnFailure_default),
     on_request      |-> Given(DefaultOnRequest_default),
     on_eos          |-> Given(DefaultOnEos_default),
     on_body_chunk   |-> Given(DefaultOnBodyChunk_default),
     on_response     |-> Given(DefaultOnResponse_default)]

\* a slip: one field carried over from the wrong field of self
on_request_ClassifierFromSpan(self, new_on_request) ==
    [on_request      |-> Given(new_on_request),
     on_failure      |-> Moved(self.on_failure),
     on_eos          |-> Moved(self.on_eos),
     on_body_chunk   |-> Moved(self.on_body_chunk),
     make_span       |-> Moved(self.make_span),
     on_response     |-> Moved(self.on_response),
     make_classifier |-> Moved(self.make_span)]

on_request(self, new_on_request) ==
    [on_request      |-> Given(new_on_request),
     on_failure      |-> Moved(self.on_failure),
     on_eos          |-> Moved(self.on_eos),
     on_body_chunk   |-> Moved(self.on_body_chunk),
     make_span       |-> Moved(self.make_span),
     on_response     |-> Moved(self.on_response),
     make_classifier |-> Moved(self.make_classifier)]

\* a slip: the result is rebuilt with a default in one of the other slots
on_response_ResetsRequest(self, new_on_response) ==
    [on_response     |-> Given(new_on_response),
     on_request      |-> Given(DefaultOnRequest_default),
     on_eos          |-> Moved(self.on_eos),
     on_body_chunk   |-> Moved(self.on_body_chunk),
     on_failure      |-> Moved(self.on_failure),
     make_span       |-> Moved(self.make_span),
     make_classifier |-> Moved(self.make_classifier)]

on_response(self, new_on_response) ==
    [on_response     |-> Given(new_on_response),
     on_request      |-> Moved(self.on_request),
     on_eos          |-> Moved(self.on_eos),
     on_body_chunk   |-> Moved(self.on_body_chunk),
     on_failure      |-> Moved(self.on_failure),
     make_span       |-> Moved(self.make_span),
     make_classifier |-> Moved(self.make_classifier)]

on_body_chunk(self, new_on_body_chunk) ==
    [on_body_chunk   |-> Given(new_on_body_chunk),
     on_eos          |-> Moved(self.on_eos),
     on_failure      |-> Moved(self.on_failure),
     on_request      |-> Moved(self.on_request),
     make_span       |-> Moved(self.make_span),
     on_response     |-> Moved(self.on_response),
     make_classifier |-> Moved(self.make_classifier)]

\* a slip: one field of self is not carried over
on_eos_LosesBodyChunk(self, new_on_eos) ==
    [on_eos          |-> Given(new_on_eos),
     on_body_chunk   |-> Unset,
     on_failure      |-> Moved(self.on_failure),
     on_request      |-> Moved(self.on_request),
     make_span       |-> Moved(self.make_span),
     on_response     |-> Moved(self.on_response),
     make_classifier |-> Moved(self.make_classifier)]

on_eos(self, new_on_eos) ==
    [on_eos          |-> Given(new_on_eos),
     on_body_chunk   |-> Moved(self.on_body_chunk),
     on_failure      |-> Moved(self.on_failure),
     on_request      |-> Moved(self.on_request),
     make_span       |-> Moved(self.make_span),
     on_response     |-> Moved(self.on_response),
     make_classifier |-> Moved(self.make_classifier)]

\* a slip: two fields carried over into each other's place
on_failure_Crossed(self, new_on_failure) ==
    [on_failure      |-> Given(new_on_failure),
     on_request      |-> Moved(self.on_response),
     on_eos          |-> Moved(self.on_eos),
     on_body_chunk   |-> Moved(self.on_body_chunk),
     make_span       |-> Moved(self.make_span),
     on_response     |-> Moved(self.on_request),
     make_classifier |-> Moved(self.make_classifier)]

on_failure(self, new_on_failure) ==
    [on_failure      |-> Given(new_on_failure),
     on_request      |-> Moved(self.on_request),
     on_eos          |-> Moved(self.on_eos),
     on_body_chunk   |-> Moved(self.on_body_chunk),
     make_span       |-> Moved(self.make_span),
     on_response     |-> Moved(self.on_response),
     make_classifier |-> Moved(self.make_classifier)]

make_span_with(self, new_make_span) ==
    [make_span       |-> Given(new_make_span),
     on_request      |-> Moved(self.on_request),
     on_failure      |-> Moved(self.on_failure),
     on_body_chunk   |-> Moved(self.on_body_chunk),
     on_eos          |-> Moved(self.on_eos),
     on_response     |-> Moved(self.on_response),
     make_classifier |-> Moved(self.make_classifier)]

new_for_http ==
    [make_classifier |-> Given(SharedClassifier_new(ServerErrorsAsFailures_default)),
     make_span       |-> Given(DefaultMakeSpan_new),
     on_response     |-> Given(DefaultOnResponse_default),
     on_request      |-> Given(DefaultOnRequest_default),
     on_body_chunk   |-> Given(DefaultOnBodyChunk_default),
     on_eos          |-> Given(DefaultOnEos_default),
     on_failure      |-> Given(DefaultOnFailure_default)]

\* a slip: the gRPC preset built with the HTTP classifier
new_for_grpc_ServerErrors ==
    [make_classifier |-> Given(SharedClassifier_new(ServerErrorsAsFailures_default)),
     make_span       |-> Given(DefaultMakeSpan_new),
     on_response     |-> Given(DefaultOnResponse_default),
     on_request      |-> Given(DefaultOnRequest_default),
     on_body_chunk   |-> Given(DefaultOnBodyChunk_default),
     on_eos          |-> Given(DefaultOnEos_default),
     on_failure      |-> Given(DefaultOnFailure_default)]

new_for_grpc ==
    [make_classifier |-> Given(SharedClassifier_new(GrpcErrorsAsFailures_default)),
     make_span       |-> Given(DefaultMakeSpan_new),
     on_response     |-> Given(DefaultOnResponse_default),
     on_request      |-> Given(DefaultOnRequest_default),
     on_body_chunk   |-> Given(DefaultOnBodyChunk_default),
     on_eos          |-> Given(DefaultOnEos_default),
     on_failure      |-> Given(DefaultOnFailure_default)]

\* a slip: one field is moved out of the borrowed self instead of cloned
layer_TakesSpan(self, inner) ==
    [inner |-> inner,
     f |-> [make_classifier |-> Cloned(self.make_classifier),
            make_span       |-> Taken(self.make_span),
            on_request      |-> Cloned(self.on_request),
            on_eos          |-> Cloned(self.on_eos),
            on_body_chunk   |-> Cloned(self.on_body_chunk),
            on_response     |-> Cloned(self.on_response),
            on_failure      |-> Cloned(self.on_failure)]]

\* a slip: layer() empties one slot of the configuration it only borrows
layer_TakesRequest(self, inner) ==
    [inner |-> inner,
     f |-> [make_classifier |-> Cloned(self.make_classifier),
            make_span       |-> Cloned(self.make_span),
            on_request      |-> Taken(self.on_request),
            on_eos          |-> Cloned(self.on_eos),
            on_body_chunk   |-> Cloned(self.on_body_chunk),
            on_response     |-> Cloned(self.on_response),
            on_failure      |-> Cloned(self.on_failure)]]

\* a slip: the Trace keeps a borrow of one field of self
layer_SharesFailure(self, inner) ==
    [inner |-> inner,
     f |-> [make_classifier |-> Cloned(self.make_classifier),
            make_span       |-> Cloned(self.make_span),
            on_request      |-> Cloned(self.on_request),
            on_eos          |-> Cloned(self.on_eos),
            on_body_chunk   |-> Cloned(self.on_body_chunk),
            on_response     |-> Cloned(self.on_response),
            on_failure      |-> Shared(self.on_failure)]]

\* impl Layer<S> for TraceLayer: the Trace literal
layer(self, inner) ==
    [inner |-> inner,
     f |-> [make_classifier |-> Cloned(self.make_classifier),
            make_span       |-> Cloned(self.make_span),
            on_request      |-> Cloned(self.on_request),
            on_eos          |-> Cloned(self.on_eos),
            on_body_chunk   |-> Cloned(self.on_body_chunk),
            on_response     |-> Cloned(self.on_response),
            on_failure      |-> Cloned(self.on_failure)]]

\* the order in which layer() initialises the fields of the Trace
LayerFieldOrder == <<"make_classifier", "make_span", "on_request", "on_eos",
                     "on_body_chunk", "on_response", "on_failure">>

\* impl fmt::Debug for TraceLayer: the fields in a fixed order, _error left out
DebugValue(v) == <<v.tag, v.of, v.n>>
fmt(self, m) ==
    <<"TraceLayer",
      <<"make_classifier", DebugValue(m[self.make_classifier])>>,
      <<"make_span",       DebugValue(m[self.make_span])>>,
      <<"on_request",      DebugValue(m[self.on_request])>>,
      <<"on_response",     DebugValue(m[self.on_response])>>,
      <<"on_body_chunk",   DebugValue(m[self.on_body_chunk])>>,
      <<"on_eos",          DebugValue(m[self.on_eos])>>,
      <<"on_failure",      DebugValue(m[self.on_failure])>>>>

\* ------------------------------------------------------------ history values
Nothing    == V("None", 0)
NoOrigin   == [ctor |-> "none", arg |-> Nothing, mc |-> Nothing, fresh |-> FALSE]
NoParent   == [of |-> 0, same |-> FALSE]
NoMutator  == [slot |-> "none", val |-> Nothing, before |-> [k \in Slots |-> Nothing]]

\* a layer was consumed by a mutator: its copies are no longer equal to it by right
Diverge(par, i) ==
    [o \in Objs |-> IF o = LayerObj(i) \/ par[o].of = i
                    THEN [par[o] EXCEPT !.same = FALSE] ELSE par[o]]
\* a layer went out of scope
Orphan(par, i) ==
    [o \in Objs |-> IF o = LayerObj(i) \/ par[o].of = i THEN NoParent ELSE par[o]]

NoJob == [src |-> 0, dst |-> 0, inner |-> "none", conc |-> FALSE]
Sequential == UNCHANGED <<pc, job, building, todo, args, crossed>>

\* ---------------------------------------------------------------- Init
InitThreads ==
    /\ pc = [t \in Threads |-> 0]
    /\ job = [t \in Threads |-> NoJob]
    /\ building = [t \in Threads |-> [k \in Slots |-> NoAddr]]
InitChains ==
    /\ todo = [i \in LayerIds |-> {}]
    /\ args = [k \in HookSlots |-> DocumentedDefault(k)]
    /\ crossed = FALSE

\* the state after a constructor call: its result is bound to the first variable
Constructed(op, lit, arg) ==
    LET r == Materialise(LayerObj(1), lit, {}, [a \in Addr |-> Free])
    IN  /\ layers = [i \in LayerIds |-> IF i = 1 THEN [live |-> TRUE, f |-> r.f] ELSE NoLayer]
        /\ traces = [j \in TraceIds |-> NoTrace]
        /\ mem = r.mem
        /\ origin = [o \in Objs |-> IF o = LayerObj(1)
                                    THEN [ctor |-> op, arg |-> arg,
                                          mc |-> r.mem[r.f.make_classifier], fresh |-> TRUE]
                                    ELSE NoOrigin]
        /\ parent = [o \in Objs |-> NoParent]
        /\ applied = [i \in LayerIds |-> NoMutator]
        /\ ops = 0

Init ==
    /\ \/ \E mc \in MakeClassifiers : Constructed("new", new(mc), mc)
       \/ Constructed("new_for_http", new_for_http, Nothing)
       \/ Constructed("new_for_grpc", new_for_grpc, Nothing)
    /\ InitThreads
    /\ InitChains

\* a new value is bound to the first variable not in use
FirstFree(live, i) == ~live[i] /\ \A i2 \in DOMAIN live : i2 < i => live[i2]
LayerLive == [i \in LayerIds |-> layers[i].live]
TraceLive == [j \in TraceIds |-> traces[j].live]

\* ---------------------------------------------------------------- actions
\* a constructor call whose result is bound to the unused variable i
Construct(i, op, lit, arg) ==
    /\ ops < MaxOps
    /\ FirstFree(LayerLive, i)
    /\ LET r == Materialise(LayerObj(i), lit, {}, mem)
       IN  /\ layers' = [layers EXCEPT ![i] = [live |-> TRUE, f |-> r.f]]
           /\ mem' = r.mem
           /\ origin' = [origin EXCEPT ![LayerObj(i)] =
                            [ctor |-> op, arg |-> arg,
                             mc |-> r.mem[r.f.make_classifier], fresh |-> TRUE]]
    /\ parent' = [parent EXCEPT ![LayerObj(i)] = NoParent]
    /\ applied' = [applied EXCEPT ![i] = NoMutator]
    /\ ops' = ops + 1
    /\ UNCHANGED traces
    /\ Sequential

New(i, mc)    == Construct(i, "new", new(mc), mc)
NewForHttp(i) == Construct(i, "new_for_http", new_for_http, Nothing)
NewForGrpc(i) == Construct(i, "new_for_grpc", new_for_grpc, Nothing)

\* a mutator takes self by value; its result is bound where self was
Consume(i, lit) ==
    /\ layers[i].live
    /\ LET r == Materialise(LayerObj(i), lit, Range(layers[i].f), mem)
       IN  /\ layers' = [layers EXCEPT ![i] = [live |-> TRUE, f |-> r.f]]
           /\ mem' = r.mem
    /\ origin' = [origin EXCEPT ![LayerObj(i)].fresh = FALSE]
    /\ parent' = Diverge(parent, i)
    /\ UNCHANGED traces

Mutate(i, k, v, lit) ==
    /\ ops < MaxOps
    /\ Consume(i, lit)
    /\ applied' = [applied EXCEPT ![i] =
                      [slot |-> k, val |-> v, before |-> SlotValues(layers[i].f, mem)]]
    /\ ops' = ops + 1
    /\ Sequential

OnRequest(i, v) ==
    layers[i].live /\ Mutate(i, "on_request", v, on_request(layers[i].f, v))
OnResponse(i, v) ==
    layers[i].live /\ Mutate(i, "on_response", v, on_response(layers[i].f, v))
OnBodyChunk(i, v) ==
    layers[i].live /\ Mutate(i, "on_body_chunk", v, on_body_chunk(layers[i].f, v))
OnEos(i, v) ==
    layers[i].live /\ Mutate(i, "on_eos", v, on_eos(layers[i].f, v))
OnFailure(i, v) ==
    layers[i].live /\ Mutate(i, "on_failure", v, on_failure(layers[i].f, v))
MakeSpanWith(i, v) ==
    layers[i].live /\ Mutate(i, "make_span", v, make_span_with(layers[i].f, v))

\* let c2 = c.clone(): self is borrowed, the clone is bound to the unused variable j
Clone(i, j) ==
    /\ ops < MaxOps
    /\ layers[i].live
    /\ FirstFree(LayerLive, j)
    /\ LET r == Materialise(LayerObj(j), clone(layers[i].f), {}, mem)
       IN  /\ layers' = [layers EXCEPT ![j] = [live |-> TRUE, f |-> r.f]]
           /\ mem' = r.mem
    /\ origin' = [origin EXCEPT ![LayerObj(j)] = origin[LayerObj(i)]]
    /\ parent' = [parent EXCEPT ![LayerObj(j)] = [of |-> i, same |-> TRUE]]
    /\ applied' = [applied EXCEPT ![j] = NoMutator]
    /\ ops' = ops + 1
    /\ UNCHANGED traces
    /\ Sequential

\* let d = c.layer(inner): self is borrowed, the Trace is bound to the unused variable j
Layer(i, j, inner) ==
    /\ ops < MaxOps
    /\ layers[i].live
    /\ FirstFree(TraceLive, j)
    /\ LET lit == layer(layers[i].f, inner)
           r == Materialise(TraceObj(j), lit.f, {}, mem)
       IN  /\ traces' = [traces EXCEPT ![j] = [live |-> TRUE, inner |-> lit.inner, f |-> r.f]]
           /\ mem' = r.mem
    /\ origin' = [origin EXCEPT ![TraceObj(j)] = origin[LayerObj(i)]]
    /\ parent' = [parent EXCEPT ![TraceObj(j)] = [of |-> i, same |-> TRUE]]
    /\ ops' = ops + 1
    /\ UNCHANGED <<layers, applied>>
    /\ Sequential

\* the variable i goes out of scope
DropLayer(i) ==
    /\ ops < MaxOps
    /\ layers[i].live
    /\ mem' = Drop(layers[i].f, mem)
    /\ layers' = [layers EXCEPT ![i] = NoLayer]
    /\ origin' = [origin EXCEPT ![LayerObj(i)] = NoOrigin]
    /\ parent' = Orphan(parent, i)
    /\ applied' = [applied EXCEPT ![i] = NoMutator]
    /\ ops' = ops + 1
    /\ UNCHANGED traces
    /\ Sequential

DropTrace(j) ==
    /\ ops < MaxOps
    /\ traces[j].live
    /\ mem' = Drop(traces[j].f, mem)
    /\ traces' = [traces EXCEPT ![j] = NoTrace]
    /\ origin' = [origin EXCEPT ![TraceObj(j)] = NoOrigin]
    /\ parent' = [parent EXCEPT ![TraceObj(j)] = NoParent]
    /\ ops' = ops + 1
    /\ UNCHANGED <<layers, applied>>
    /\ Sequential

\* the wiring code after its first constructor call
Next ==
    \/ \E i \in LayerIds, v \in CustomHooks("on_request") : OnRequest(i, v)
    \/ \E i \in LayerIds, v \in CustomHooks("on_response") : OnResponse(i, v)
    \/ \E i \in LayerIds, v \in CustomHooks("on_body_chunk") : OnBodyChunk(i, v)
    \/ \E i \in LayerIds, v \in CustomHooks("on_eos") : OnEos(i, v)
    \/ \E i \in LayerIds, v \in CustomHooks("on_failure") : OnFailure(i, v)
    \/ \E i \in LayerIds, v \in CustomHooks("make_span") : MakeSpanWith(i, v)
    \/ \E i, j \in LayerIds : Clone(i, j)
    \/ \E i \in LayerIds, j \in TraceIds, inner \in InnerServices : Layer(i, j, inner)
    \/ \E i \in LayerIds : DropLayer(i)
    \/ \E j \in TraceIds : DropTrace(j)

Spec == Init /\ [][Next]_vars

\* wiring code that constructs several configurations and customises them
InitCtor ==
    /\ layers = [i \in LayerIds |-> NoLayer]
    /\ traces = [j \in TraceIds |-> NoTrace]
    /\ mem = [a \in Addr |-> Free]
    /\ origin = [o \in Objs |-> NoOrigin]
    /\ parent = [o \in Objs |-> NoParent]
    /\ applied = [i \in LayerIds |-> NoMutator]
    /\ ops = 0
    /\ InitThreads
    /\ InitChains

NextCtor ==
    \/ \E i \in LayerIds, mc \in MakeClassifiers : New(i, mc)
    \/ \E i \in LayerIds : NewForHttp(i)
    \/ \E i \in LayerIds : NewForGrpc(i)
    \/ \E i \in LayerIds, v \in CustomHooks("on_request") : OnRequest(i, v)
    \/ \E i \in LayerIds, v \in CustomHooks("on_response") : OnResponse(i, v)
    \/ \E i \in LayerIds, v \in CustomHooks("on_body_chunk") : OnBodyChunk(i, v)
    \/ \E i \in LayerIds, v \in CustomHooks("on_eos") : OnEos(i, v)
    \/ \E i \in LayerIds, v \in CustomHooks("on_failure") : OnFailure(i, v)
    \/ \E i \in LayerIds, v \in CustomHooks("make_span") : MakeSpanWith(i, v)
    \/ \E i \in LayerIds : DropLayer(i)

SpecCtor == InitCtor /\ [][NextCtor]_vars

\* ------------------------------------------------------------ observations
LiveLayers == {i \in LayerIds : layers[i].live}
LiveTraces == {j \in TraceIds : traces[j].live}
LayerValues(i) == SlotValues(layers[i].f, mem)
TraceValues(j) == SlotValues(traces[j].f, mem)
\* the fields of every live struct, by the variable that holds it
Fields(o) == IF o[1] = "layer" THEN layers[o[2]].f ELSE traces[o[2]].f
LiveObjs == {LayerObj(i) : i \in LiveLayers} \cup {TraceObj(j) : j \in LiveTraces}
HooksAreDefault(i) == \A k \in HookSlots : LayerValues(i)[k] = DocumentedDefault(k)

\* What the bookkeeping of a step shows of its kind, whatever the struct
\* literals do: every action below implies its Is... condition, so a formula
\* may test the condition before it matches the step against the action.
SameLiveLayers == \A i \in LayerIds : layers'[i].live = layers[i].live
IsMutatorStep == ops' = ops + 1 /\ traces' = traces /\ SameLiveLayers
IsCloneStep(j) == ops' = ops + 1 /\ ~layers[j].live /\ layers'[j].live
IsLayerStep(j) == ops' = ops + 1 /\ ~traces[j].live /\ traces'[j].live
IsDropTraceStep(j) == ops' = ops + 1 /\ traces[j].live /\ ~traces'[j].live

\* ------------------------------------------------------------------ C1
\* C1: a mutator applied to a configuration with a new value v returns a
\* configuration that holds v in the targeted slot and, in the classifier
\* factory and the five other slots, the values the configuration held before.
C1_MutatorReplacesOneSlot ==
    \A i \in LiveLayers :
        applied[i].slot # "none" =>
            /\ applied[i].slot \in HookSlots
            /\ LayerValues(i)[applied[i].slot] = applied[i].val
            /\ \A k2 \in Slots \ {applied[i].slot} :
                  LayerValues(i)[k2] = applied[i].before[k2]

\* cfg2 = new(classifierA).on_failure(customHook)
C1_Witness ==
    \E i \in LiveLayers :
        /\ origin[LayerObj(i)].ctor = "new" /\ ~origin[LayerObj(i)].fresh
        /\ applied[i].slot = "on_failure"
        /\ HookSlots = {k \in HookSlots : applied[i].before[k] = DocumentedDefault(k)}
        /\ LayerValues(i).on_failure \in CustomHooks("on_failure")
        /\ LayerValues(i).make_classifier = origin[LayerObj(i)].arg
        /\ \A k \in HookSlots \ {"on_failure"} : LayerValues(i)[k] = DocumentedDefault(k)

\* ------------------------------------------------------------------ C3
\* C3: layer(inner) on a configuration returns a Trace whose inner is the one
\* passed and whose seven slot values equal the configuration's; the
\* configuration is left as it was, and every Trace built from it while it is
\* not consumed holds the configuration's slot values.
C3_BuiltEqualsConfiguration ==
    \A j \in LiveTraces :
        (parent[TraceObj(j)].same /\ parent[TraceObj(j)].of \in LiveLayers)
            => TraceValues(j) = LayerValues(parent[TraceObj(j)].of)
\* C3: layer(inner) returns a Trace holding inner and a clone of every slot,
\* and leaves every configuration as it was.
C3_LayerClonesAndBorrows ==
    /\ []C3_BuiltEqualsConfiguration
    /\ [][\A i \in LayerIds : \A j \in TraceIds : \A inner \in InnerServices :
            (IsLayerStep(j) /\ layers[i].live /\ Layer(i, j, inner)) =>
               /\ traces'[j].live /\ traces'[j].inner = inner
               /\ SlotValues(traces'[j].f, mem') = LayerValues(i)
               /\ layers' = layers
               /\ SlotValues(layers'[i].f, mem') = LayerValues(i)]_vars

\* d1 = cfg.layer(serviceX); d2 = cfg.layer(serviceY), cfg customised before
C3_Witness ==
    \E i \in LiveLayers : \E j1, j2 \in LiveTraces :
        /\ ~origin[LayerObj(i)].fresh
        /\ parent[TraceObj(j1)] = [of |-> i, same |-> TRUE]
        /\ parent[TraceObj(j2)] = [of |-> i, same |-> TRUE]
        /\ traces[j1].inner # traces[j2].inner
        /\ TraceValues(j1) = TraceValues(j2)
        /\ TraceValues(j1) = LayerValues(i)

\* ------------------------------------------------------------------ C4
\* C4: Traces built from one configuration share no state: no cell is held
\* by two live structs, and dropping the slot values of one Trace changes
\* neither the slot values of another Trace nor those of any configuration.
C4_NoCellShared ==
    \A o \in LiveObjs : Range(Fields(o)) = OwnCells(o)
\* C4: Traces built from one configuration share no cell, and dropping one
\* leaves every other Trace and every configuration as it was.
C4_TracesIndependent ==
    /\ []C4_NoCellShared
    /\ [][\A j \in TraceIds : (IsDropTraceStep(j) /\ DropTrace(j)) =>
            /\ \A i \in LiveLayers :
                  layers'[i].live /\ SlotValues(layers'[i].f, mem') = LayerValues(i)
            /\ \A j2 \in LiveTraces \ {j} :
                  traces'[j2].live /\ SlotValues(traces'[j2].f, mem') = TraceValues(j2)]_vars

\* two Traces were built from one configuration and the first was dropped
C4_Witness ==
    \E i \in LiveLayers :
        /\ ~traces[1].live
        /\ traces[2].live
        /\ parent[TraceObj(2)].of = i
        /\ TraceValues(2) = LayerValues(i)

\* ------------------------------------------------------------------ C7
\* C7: every configuration reached from a constructor by mutators and clones,
\* and every Trace built from one, holds the classifier factory that the
\* constructor set.
C7_ClassifierFixedAtConstruction ==
    \A o \in LiveObjs :
        /\ origin[o].ctor \in {"new", "new_for_http", "new_for_grpc"}
        /\ mem[Fields(o).make_classifier] = origin[o].mc

\* a customised clone and a Trace built from it
C7_Witness ==
    \E i \in LiveLayers : \E j \in LiveTraces :
        /\ parent[LayerObj(i)].of # 0
        /\ ~origin[LayerObj(i)].fresh
        /\ parent[TraceObj(j)].of = i
        /\ mem[traces[j].f.make_classifier] = origin[LayerObj(i)].mc

\* ------------------------------------------------------------------ C8
\* C8: cloning a configuration yields one with every slot equal (the Debug
\* output is the same), leaves the original unchanged, and shares no slot: a
\* mutator applied to one configuration leaves the slots of every other one
\* as they were.
C8_CloneEqualsOriginal ==
    \A i \in LiveLayers :
        (parent[LayerObj(i)].same /\ parent[LayerObj(i)].of \in LiveLayers)
            => /\ LayerValues(i) = LayerValues(parent[LayerObj(i)].of)
               /\ fmt(layers[i].f, mem) = fmt(layers[parent[LayerObj(i)].of].f, mem)
\* C8: a clone equals its original slot for slot, holds cells of its own, and
\* a mutator applied to either leaves the other as it was.
C8_CloneIsIndependentCopy ==
    /\ []C8_CloneEqualsOriginal
    /\ [][/\ \A i, j \in LayerIds : (IsCloneStep(j) /\ layers[i].live /\ Clone(i, j)) =>
                /\ layers'[j].live
                /\ SlotValues(layers'[j].f, mem') = LayerValues(i)
                /\ fmt(layers'[j].f, mem') = fmt(layers[i].f, mem)
                /\ layers'[i] = layers[i]
                /\ SlotValues(layers'[i].f, mem') = LayerValues(i)
                /\ Range(layers'[j].f) \cap Range(layers'[i].f) = {}
          /\ IsMutatorStep =>
                \A i2 \in LiveLayers :
                    applied'[i2] = applied[i2] =>
                       /\ layers'[i2] = layers[i2]
                       /\ SlotValues(layers'[i2].f, mem') = LayerValues(i2)]_vars

\* c2 = c.clone(), then a mutator on c2: c still holds what new() gave it
C8_Witness ==
    \E i, j \in LiveLayers :
        /\ parent[LayerObj(j)] = [of |-> i, same |-> FALSE]
        /\ origin[LayerObj(i)].fresh
        /\ ~origin[LayerObj(j)].fresh
        /\ LayerValues(i) # LayerValues(j)
        /\ HooksAreDefault(i)

\* ------------------------------------------------------------------ C10
\* C10: every configuration and every Trace is fully specified: it holds
\* exactly one classifier factory and exactly six hook values, each a value
\* of its capability and none absent.
C10_FullySpecified ==
    \A o \in LiveObjs :
        /\ DOMAIN Fields(o) = Slots
        /\ \A k \in Slots : Fields(o)[k] \in Addr /\ mem[Fields(o)[k]] \in Capability(k)

\* a customised configuration, a second configuration and a Trace built from the first
C10_Witness ==
    \E i, i2 \in LiveLayers : \E j \in LiveTraces :
        /\ i # i2
        /\ Cardinality({k \in HookSlots : LayerValues(i)[k] \in CustomHooks(k)}) >= 1
        /\ parent[TraceObj(j)].of = i

\* ------------------------------------------------------------------ C6
\* C6: new(make_classifier) with no mutator applied yields a configuration
\* whose classifier factory is the one given and whose six hook slots hold
\* the defaults the struct declares.
C6_NewInstallsDefaults ==
    \A i \in LiveLayers :
        (origin[LayerObj(i)].ctor = "new" /\ origin[LayerObj(i)].fresh)
            => /\ LayerValues(i).make_classifier = origin[LayerObj(i)].arg
               /\ \A k \in HookSlots : LayerValues(i)[k] = DocumentedDefault(k)

\* new(classifierA), next to a configuration that was customised
C6_Witness ==
    \E i, i2 \in LiveLayers :
        /\ origin[LayerObj(i)].ctor = "new" /\ origin[LayerObj(i)].fresh
        /\ origin[LayerObj(i)].arg \in CustomClassifiers
        /\ LayerValues(i).make_classifier = origin[LayerObj(i)].arg
        /\ ~origin[LayerObj(i2)].fresh

\* ------------------------------------------------------------------ C9
\* C9: new_for_http() and new_for_grpc() yield configurations whose
\* classifier factories (a status-code policy, a grpc-status policy) differ
\* from each other and from a user-supplied one, and whose six hook slots
\* equal the defaults that new() installs.
Presets == {"new_for_http", "new_for_grpc"}
C9_PresetsDifferInClassifierOnly ==
    \A i, j \in LiveLayers :
        LET oi == origin[LayerObj(i)]
            oj == origin[LayerObj(j)]
            ci == LayerValues(i).make_classifier
            cj == LayerValues(j).make_classifier
        IN  /\ (oi.ctor = "new_for_http" /\ oj.ctor = "new_for_grpc")
                  => /\ ci # cj
                     /\ ci.tag = "SharedClassifier" /\ ci.of = "ServerErrorsAsFailures"
                     /\ cj.tag = "SharedClassifier" /\ cj.of = "GrpcErrorsAsFailures"
                     /\ fmt(layers[i].f, mem)[2] # fmt(layers[j].f, mem)[2]
            /\ (oi.ctor \in Presets /\ oj.ctor = "new" /\ oj.arg \in CustomClassifiers)
                  => /\ ci # cj
                     /\ fmt(layers[i].f, mem)[2] # fmt(layers[j].f, mem)[2]
            /\ (oi.ctor \in Presets /\ oi.fresh /\ oj.ctor = "new" /\ oj.fresh)
                  => \A k \in HookSlots : LayerValues(i)[k] = LayerValues(j)[k]
            /\ (oi.ctor \in Presets /\ oi.fresh) => HooksAreDefault(i)

\* both presets constructed, neither customised
C9_Witness ==
    \E i, j \in LiveLayers :
        /\ origin[LayerObj(i)].ctor = "new_for_http" /\ origin[LayerObj(i)].fresh
        /\ origin[LayerObj(j)].ctor = "new_for_grpc" /\ origin[LayerObj(j)].fresh
        /\ LayerValues(i).make_classifier # LayerValues(j).make_classifier
        /\ \A k \in HookSlots : LayerValues(i)[k] = LayerValues(j)[k]

\* ------------------------------------------------------------------ C2
\* Two chains of mutator calls start from equal configurations (the same
\* constructor call made twice) and apply the six mutators, each once, with
\* the same arguments, each chain in an order of its own.
Chains == {1, 2}

ConstructedTwice(op, lit, arg) ==
    LET r1 == Materialise(LayerObj(1), lit, {}, [a \in Addr |-> Free])
        r2 == Materialise(LayerObj(2), lit, {}, r1.mem)
        o1 == [ctor |-> op, arg |-> arg, mc |-> r1.mem[r1.f.make_classifier], fresh |-> TRUE]
        o2 == [ctor |-> op, arg |-> arg, mc |-> r2.mem[r2.f.make_classifier], fresh |-> TRUE]
    IN  /\ layers = [i \in LayerIds |-> CASE i = 1 -> [live |-> TRUE, f |-> r1.f]
                                          [] i = 2 -> [live |-> TRUE, f |-> r2.f]
                                          [] OTHER -> NoLayer]
        /\ traces = [j \in TraceIds |-> NoTrace]
        /\ mem = r2.mem
        /\ origin = [o \in Objs |-> CASE o = LayerObj(1) -> o1
                                      [] o = LayerObj(2) -> o2
                                      [] OTHER -> NoOrigin]
        /\ parent = [o \in Objs |-> NoParent]
        /\ applied = [i \in LayerIds |-> NoMutator]
        /\ ops = 0

InitPerm ==
    /\ \/ \E mc \in MakeClassifiers : ConstructedTwice("new", new(mc), mc)
       \/ ConstructedTwice("new_for_http", new_for_http, Nothing)
       \/ ConstructedTwice("new_for_grpc", new_for_grpc, Nothing)
    /\ InitThreads
    /\ todo = [i \in LayerIds |-> IF i \in Chains THEN HookSlots ELSE {}]
    /\ \E n \in 1..NumCustom : args = [k \in HookSlots |-> W("Custom", k, n)]
    /\ crossed = FALSE

ChainStep(i, k, lit) ==
    /\ k \in todo[i]
    /\ Consume(i, lit)
    /\ todo' = [todo EXCEPT ![i] = @ \ {k}]
    /\ crossed' = (crossed \/ (/\ todo'[1] # todo'[2]
                               /\ Cardinality(todo'[1]) = Cardinality(todo'[2])))
    /\ UNCHANGED <<applied, ops, args, pc, job, building>>

ChainOnRequest(i)    == layers[i].live /\
    ChainStep(i, "on_request", on_request(layers[i].f, args.on_request))
ChainOnResponse(i)   == layers[i].live /\
    ChainStep(i, "on_response", on_response(layers[i].f, args.on_response))
ChainOnBodyChunk(i)  == layers[i].live /\
    ChainStep(i, "on_body_chunk", on_body_chunk(layers[i].f, args.on_body_chunk))
ChainOnEos(i)        == layers[i].live /\
    ChainStep(i, "on_eos", on_eos(layers[i].f, args.on_eos))
ChainOnFailure(i)    == layers[i].live /\
    ChainStep(i, "on_failure", on_failure(layers[i].f, args.on_failure))
ChainMakeSpanWith(i) == layers[i].live /\
    ChainStep(i, "make_span", make_span_with(layers[i].f, args.make_span))

NextPerm ==
    \/ \E i \in Chains : ChainOnRequest(i)
    \/ \E i \in Chains : ChainOnResponse(i)
    \/ \E i \in Chains : ChainOnBodyChunk(i)
    \/ \E i \in Chains : ChainOnEos(i)
    \/ \E i \in Chains : ChainOnFailure(i)
    \/ \E i \in Chains : ChainMakeSpanWith(i)

SpecPerm == InitPerm /\ [][NextPerm]_vars

\* C2: mutators on distinct slots commute: two chains that have applied the
\* same set of mutators with the same arguments, in whatever orders, hold the
\* same seven slot values and print the same Debug output.
C2_MutatorsCommute ==
    \A i, j \in Chains :
        todo[i] = todo[j] =>
            /\ LayerValues(i) = LayerValues(j)
            /\ fmt(layers[i].f, mem) = fmt(layers[j].f, mem)

\* both chains applied all six mutators, in different orders
C2_Witness ==
    /\ crossed
    /\ todo[1] = {} /\ todo[2] = {}
    /\ LayerValues(1) = LayerValues(2)
    /\ \A k \in HookSlots : LayerValues(1)[k] = args[k]

\* ------------------------------------------------------------------ C5
\* Threads share one configuration by reference and call layer() on it at the
\* same time; a call initialises the fields of its Trace one after another,
\* in the order of the literal, and the calls interleave field by field.
Customised(op, lit, arg, v) ==
    LET r0 == Materialise(LayerObj(1), lit, {}, [a \in Addr |-> Free])
        r  == IF v = Nothing THEN r0
              ELSE Materialise(LayerObj(1), on_failure(r0.f, v), Range(r0.f), r0.mem)
    IN  /\ layers = [i \in LayerIds |-> IF i = 1 THEN [live |-> TRUE, f |-> r.f] ELSE NoLayer]
        /\ traces = [j \in TraceIds |-> NoTrace]
        /\ mem = r.mem
        /\ origin = [o \in Objs |-> IF o = LayerObj(1)
                                    THEN [ctor |-> op, arg |-> arg,
                                          mc |-> r0.mem[r0.f.make_classifier],
                                          fresh |-> (v = Nothing)]
                                    ELSE NoOrigin]
        /\ parent = [o \in Objs |-> NoParent]
        /\ applied = [i \in LayerIds |->
                         IF i = 1 /\ v # Nothing
                         THEN [slot |-> "on_failure", val |-> v,
                               before |-> SlotValues(r0.f, r0.mem)]
                         ELSE NoMutator]
        /\ ops = 0

InitConc ==
    /\ \E v \in CustomHooks("on_failure") \cup {Nothing} :
          \/ \E mc \in MakeClassifiers : Customised("new", new(mc), mc, v)
          \/ Customised("new_for_http", new_for_http, Nothing, v)
          \/ Customised("new_for_grpc", new_for_grpc, Nothing, v)
    /\ InitThreads
    /\ InitChains

\* the service a thread wraps
InnerOf(t) == IF t % 2 = 1 THEN "serviceX" ELSE "serviceY"
Running(t) == pc[t] \in 1..(Len(LayerFieldOrder) + 1)

\* thread t enters c.layer(inner); the Trace will be bound to its variable t
LayerBegin(t, i) ==
    /\ pc[t] = 0
    /\ t \in TraceIds
    /\ ~traces[t].live
    /\ layers[i].live
    /\ pc' = [pc EXCEPT ![t] = 1]
    /\ job' = [job EXCEPT ![t] = [src |-> i, dst |-> t, inner |-> InnerOf(t), conc |-> FALSE]]
    /\ building' = [building EXCEPT ![t] = [k \in Slots |-> NoAddr]]
    /\ UNCHANGED <<layers, traces, mem, origin, parent, applied, ops, todo, args, crossed>>

\* thread t initialises the next field of its Trace
LayerField(t) ==
    /\ pc[t] \in 1..Len(LayerFieldOrder)
    /\ LET k   == LayerFieldOrder[pc[t]]
           lit == layer(layers[job[t].src].f, job[t].inner)
           r   == InitField(TraceObj(job[t].dst), k, lit.f[k], mem)
       IN  /\ mem' = r.mem
           /\ building' = [building EXCEPT ![t][k] = r.addr]
    /\ pc' = [pc EXCEPT ![t] = @ + 1]
    /\ job' = [job EXCEPT ![t].conc = @ \/ \E t2 \in Threads \ {t} : Running(t2)]
    /\ UNCHANGED <<layers, traces, origin, parent, applied, ops, todo, args, crossed>>

\* thread t returns the Trace to its caller
LayerReturn(t) ==
    /\ pc[t] = Len(LayerFieldOrder) + 1
    /\ LET lit == layer(layers[job[t].src].f, job[t].inner)
       IN  traces' = [traces EXCEPT ![job[t].dst] =
                         [live |-> TRUE, inner |-> lit.inner, f |-> building[t]]]
    /\ origin' = [origin EXCEPT ![TraceObj(job[t].dst)] = origin[LayerObj(job[t].src)]]
    /\ parent' = [parent EXCEPT ![TraceObj(job[t].dst)] = [of |-> job[t].src, same |-> TRUE]]
    /\ pc' = [pc EXCEPT ![t] = 0]
    /\ UNCHANGED <<layers, mem, applied, ops, job, building, todo, args, crossed>>

NextConc ==
    \/ \E t \in Threads, i \in LayerIds : LayerBegin(t, i)
    \/ \E t \in Threads : LayerField(t)
    \/ \E t \in Threads : LayerReturn(t)

SpecConc == InitConc /\ [][NextConc]_vars

\* C5: concurrent layer() calls on one configuration are safe: in every
\* interleaving no call writes to the configuration, and each Trace returned
\* holds the inner passed and slot values equal to the configuration's, as a
\* call that ran alone would return.
C5_ReturnedEqualsConfiguration ==
    \A j \in LiveTraces :
        /\ parent[TraceObj(j)].of \in LiveLayers
        /\ TraceValues(j) = LayerValues(parent[TraceObj(j)].of)
        /\ Range(traces[j].f) = OwnCells(TraceObj(j))
        /\ \A t \in Threads : job[t].dst = j => traces[j].inner = job[t].inner
\* C5: under every interleaving of layer() calls on one configuration, every
\* returned Trace equals the configuration and the configuration is unchanged.
C5_ConcurrentLayerCallsSafe ==
    /\ []C5_ReturnedEqualsConfiguration
    /\ [][/\ layers' = layers
          /\ \A i \in LiveLayers : SlotValues(layers'[i].f, mem') = LayerValues(i)]_vars

\* two calls that overlapped have both returned
C5_Witness ==
    \E t1, t2 \in Threads :
        /\ t1 # t2
        /\ job[t1].conc /\ job[t2].conc
        /\ pc[t1] = 0 /\ pc[t2] = 0
        /\ traces[job[t1].dst].live /\ traces[job[t2].dst].live
        /\ job[t1].src = job[t2].src
        /\ TraceValues(job[t1].dst) = LayerValues(job[t1].src)
        /\ TraceValues(job[t2].dst) = LayerValues(job[t2].src)

====
